---- MODULE Spec2Model ----
(***************************************************************************)
(* Model of light_calculator.py: the radiometric chain, the noise model    *)
(* and calculate_full_chain, over a decimal model of Python's float.       *)
(*                                                                         *)
(* A Python float is modelled as a record [k, m, e]:                       *)
(*   k = "fin"  the number m * 10^e, m = 0 or DIGITS significant digits    *)
(*   k = "inf"  +infinity (m = 1) or -infinity (m = -1)                    *)
(*   k = "nan"  not-a-number                                               *)
(* and a raised Python exception as [k |-> <exception name>].  Every       *)
(* arithmetic operator rounds its result to DIGITS decimal digits (half    *)
(* to even) where binary64 rounds to 53 bits, overflows to infinity above  *)
(* 1.797e308, underflows to zero below 1e-324, and raises where Python     *)
(* raises: ZeroDivisionError from /, OverflowError from **, ValueError     *)
(* from math.sqrt.  Subnormal numbers and the sign of zero are left out.   *)
(*                                                                         *)
(* The arithmetic operators are applications of functions (MulFn, ...)     *)
(* so that an argument expression is evaluated once.                       *)
(*                                                                         *)
(* start_dashboard.launch_dashboard is modelled next to it (SpecDashboard):*)
(* the launch loop over launch_commands, the keep-alive loop and the       *)
(* shutdown on KeyboardInterrupt, with the child processes as environment. *)
(***************************************************************************)
EXTENDS Integers, Sequences

\* significant decimal digits kept by the float model
DIGITS == 3
\* largest / smallest decimal exponent of a finite non-zero float, and the
\* leading digits of the largest float, 1.7976931e308
MaxExp10 == 308
MinExp10 == -324
MaxMantissa == 17976931

ErrKinds == {"ZeroDivisionError", "ValueError", "OverflowError"}

\* the records that stand for Python values
Values == [k : STRING, m : Int, e : Int]

Fin(m, e) == [k |-> "fin", m |-> m, e |-> e]
Inf(s) == [k |-> "inf", m |-> s, e |-> 0]
NaN == [k |-> "nan", m |-> 0, e |-> 0]
Raise(name) == [k |-> name, m |-> 0, e |-> 0]
Zero == Fin(0, 0)

IsErr(x) == x.k \in ErrKinds
IsFin(x) == x.k = "fin"
IsNaN(x) == x.k = "nan"
IsInf(x) == x.k = "inf"
IsZero(x) == x.k = "fin" /\ x.m = 0

Abs(n) == IF n < 0 THEN -n ELSE n
Sgn(n) == IF n < 0 THEN -1 ELSE IF n > 0 THEN 1 ELSE 0

RECURSIVE Pow10(_)
Pow10(n) == IF n <= 0 THEN 1 ELSE 10 * Pow10(n - 1)

RECURSIVE NumDigits(_)
NumDigits(a) == IF a < 10 THEN 1 ELSE 1 + NumDigits(a \div 10)

\* a finite result m * 10^e with m already DIGITS long: overflow to
\* infinity above the largest float, underflow to zero
InRangeFn[m \in Int, e \in Int] ==
    IF \/ e + DIGITS - 1 > MaxExp10
       \/ (e + DIGITS - 1 = MaxExp10
             /\ Abs(m) > MaxMantissa \div Pow10(8 - DIGITS))
    THEN Inf(Sgn(m))
    ELSE IF e + DIGITS - 1 < MinExp10 THEN Zero
    ELSE Fin(m, e)

InRange(m, e) == InRangeFn[m, e]

\* the float nearest to the exact value m * 10^e (round half to even)
NormFn[m \in Int, e \in Int] ==
    LET a == Abs(m)
        s == Sgn(m)
        nd == NumDigits(a)
    IN IF m = 0 THEN Zero
       ELSE IF nd <= DIGITS
            THEN InRange(s * a * Pow10(DIGITS - nd), e - (DIGITS - nd))
            ELSE LET sh == nd - DIGITS
                     q == a \div Pow10(sh)
                     r == a % Pow10(sh)
                     up == \/ 2 * r > Pow10(sh)
                           \/ (2 * r = Pow10(sh) /\ q % 2 = 1)
                     q2 == IF up THEN q + 1 ELSE q
                 IN IF q2 = Pow10(DIGITS)
                    THEN InRange(s * Pow10(DIGITS - 1), e + sh + 1)
                    ELSE InRange(s * q2, e + sh)

Norm(m, e) == NormFn[m, e]

\* a float literal
Flt(m, e) == Norm(m, e)

\* x > y on floats (False when either is nan)
GtFn[x \in Values, y \in Values] ==
    IF IsNaN(x) \/ IsNaN(y) THEN FALSE
    ELSE IF IsInf(x) THEN x.m = 1 /\ ~(IsInf(y) /\ y.m = 1)
    ELSE IF IsInf(y) THEN y.m = -1
    ELSE IF x.m > 0 /\ y.m > 0 THEN x.e > y.e \/ (x.e = y.e /\ x.m > y.m)
    ELSE IF x.m > 0 THEN TRUE
    ELSE IF x.m = 0 THEN y.m < 0
    ELSE y.m < 0 /\ (x.e < y.e \/ (x.e = y.e /\ x.m > y.m))

Gt(x, y) == GtFn[x, y]

\* x == y on floats (False when either is nan)
EqFn[x \in Values, y \in Values] == ~IsNaN(x) /\ ~IsNaN(y) /\ x = y

Eq(x, y) == EqFn[x, y]

LeFn[x \in Values, y \in Values] == GtFn[y, x] \/ EqFn[x, y]

Le(x, y) == LeFn[x, y]

LtFn[x \in Values, y \in Values] == GtFn[y, x]

Lt(x, y) == LtFn[x, y]

\* x * y
MulFn[x \in Values, y \in Values] ==
    IF IsErr(x) THEN x ELSE IF IsErr(y) THEN y
    ELSE IF IsNaN(x) \/ IsNaN(y) THEN NaN
    ELSE IF IsInf(x) \/ IsInf(y)
         THEN IF IsZero(x) \/ IsZero(y) THEN NaN
              ELSE Inf(Sgn(x.m) * Sgn(y.m))
    ELSE Norm(x.m * y.m, x.e + y.e)

Mul(x, y) == MulFn[x, y]

\* x / y with IEEE-754 division: a zero divisor gives infinity or nan
DivIEEEFn[x \in Values, y \in Values] ==
    IF IsErr(x) THEN x ELSE IF IsErr(y) THEN y
    ELSE IF IsNaN(x) \/ IsNaN(y) THEN NaN
    ELSE IF IsZero(y) THEN (IF IsZero(x) THEN NaN
                            ELSE Inf(IF x.m < 0 THEN -1 ELSE 1))
    ELSE IF IsInf(x) THEN (IF IsInf(y) THEN NaN ELSE Inf(x.m * Sgn(y.m)))
    ELSE IF IsInf(y) THEN Zero
    ELSE Norm(Sgn(x.m) * Sgn(y.m)
                * ((Abs(x.m) * Pow10(DIGITS + 1)) \div Abs(y.m)),
              x.e - y.e - (DIGITS + 1))

DivIEEE(x, y) == DivIEEEFn[x, y]

\* x / y: Python raises ZeroDivisionError on a zero divisor
DivFn[x \in Values, y \in Values] ==
    IF IsErr(x) THEN x ELSE IF IsErr(y) THEN y
    ELSE IF IsZero(y) THEN Raise("ZeroDivisionError")
    ELSE IF IsNaN(x) \/ IsNaN(y) THEN NaN
    ELSE IF IsInf(x) THEN (IF IsInf(y) THEN NaN ELSE Inf(x.m * Sgn(y.m)))
    ELSE IF IsInf(y) THEN Zero
    ELSE Norm(Sgn(x.m) * Sgn(y.m)
                * ((Abs(x.m) * Pow10(DIGITS + 1)) \div Abs(y.m)),
              x.e - y.e - (DIGITS + 1))

Div(x, y) == DivFn[x, y]

\* x + y
AddFn[x \in Values, y \in Values] ==
    IF IsErr(x) THEN x ELSE IF IsErr(y) THEN y
    ELSE IF IsNaN(x) \/ IsNaN(y) THEN NaN
    ELSE IF IsInf(x) THEN (IF IsInf(y) /\ y.m # x.m THEN NaN ELSE x)
    ELSE IF IsInf(y) THEN y
    ELSE IF x.m = 0 THEN y
    ELSE IF y.m = 0 THEN x
    ELSE LET hi == IF x.e >= y.e THEN x ELSE y
             lo == IF x.e >= y.e THEN y ELSE x
             d == hi.e - lo.e
         IN IF d > DIGITS + 1 THEN hi
            ELSE Norm(hi.m * Pow10(d) + lo.m, lo.e)

Add(x, y) == AddFn[x, y]

\* x ** 2: Python raises OverflowError when a finite square overflows
Pow2Fn[x \in Values] ==
    IF IsErr(x) THEN x
    ELSE IF IsNaN(x) THEN NaN
    ELSE IF IsInf(x) THEN Inf(1)
    ELSE LET p == Norm(x.m * x.m, x.e + x.e)
         IN IF IsInf(p) THEN Raise("OverflowError") ELSE p

Pow2(x) == Pow2Fn[x]

\* max(x, y) as Python computes it: y only when y > x
PyMaxFn[x \in Values, y \in Values] == IF IsErr(x) THEN x ELSE IF Gt(y, x) THEN y ELSE x

PyMax(x, y) == PyMaxFn[x, y]

RECURSIVE ISqrtBS(_, _, _)
\* floor of the square root of n, with lo^2 <= n < hi^2
ISqrtBS(n, lo, hi) ==
    IF hi - lo <= 1 THEN lo
    ELSE LET mid == (lo + hi) \div 2
         IN IF mid * mid <= n THEN ISqrtBS(n, mid, hi) ELSE ISqrtBS(n, lo, mid)

ISqrt(n) == ISqrtBS(n, 0, 31623)

\* math.sqrt(x): raises ValueError (math domain error) below zero
SqrtFn[x \in Values] ==
    IF IsErr(x) THEN x
    ELSE IF IsNaN(x) THEN NaN
    ELSE IF IsInf(x) THEN (IF x.m = 1 THEN x ELSE Raise("ValueError"))
    ELSE IF x.m < 0 THEN Raise("ValueError")
    ELSE IF x.m = 0 THEN Zero
    ELSE LET odd == x.e % 2 = 1
             m1 == IF odd THEN x.m * 10 ELSE x.m
             e1 == IF odd THEN x.e - 1 ELSE x.e
             h == (DIGITS + 1) \div 2
         IN Norm(ISqrt(m1 * Pow10(2 * h)), (e1 \div 2) - h)

Sqrt(x) == SqrtFn[x]

RECURSIVE LogDigits(_, _)
\* the first n decimal digits of log10(f), 1 <= f < 10, as an integer
LogDigits(f, n) ==
    IF n = 0 THEN 0
    ELSE LET f2 == Mul(f, f)
             f4 == Mul(f2, f2)
             f8 == Mul(f4, f4)
             f10 == Mul(f8, f2)
             d0 == f10.e + DIGITS - 1
             d == IF d0 > 9 THEN 9 ELSE d0
         IN d * Pow10(n - 1) + LogDigits(Fin(f10.m, -(DIGITS - 1)), n - 1)

\* math.log10(x), only ever called with x > 0
Log10Fn[x \in Values] ==
    IF IsErr(x) THEN x
    ELSE IF IsNaN(x) THEN NaN
    ELSE IF IsInf(x) THEN (IF x.m = 1 THEN x ELSE Raise("ValueError"))
    ELSE IF x.m <= 0 THEN Raise("ValueError")
    ELSE Norm((x.e + DIGITS - 1) * Pow10(DIGITS)
                + LogDigits(Fin(x.m, -(DIGITS - 1)), DIGITS), -DIGITS)

Log10(x) == Log10Fn[x]

(***************************************************************************)
(* light_calculator.py                                                     *)
(***************************************************************************)

\* math.pi
MATH_PI == Flt(314159265, -8)

PLANCK_CONSTANT == Flt(662607015, -42)
SPEED_OF_LIGHT == Flt(299792458, 0)
LUX_CONVERSION_FACTOR == Flt(683, 0)

\* the module namespace the functions read their constants from
ModuleGlobals ==
    [PLANCK_CONSTANT |-> PLANCK_CONSTANT,
     SPEED_OF_LIGHT |-> SPEED_OF_LIGHT,
     LUX_CONVERSION_FACTOR |-> LUX_CONVERSION_FACTOR]

None == [k |-> "None", m |-> 0, e |-> 0]

\* a Python str value
Str(s) == [k |-> s, m |-> 0, e |-> 0]

\* the outcome of a call: a returned value or a raised exception
Returned(v) == [exc |-> "none", val |-> v]
Raised(name) == [exc |-> name, val |-> None]

RECURSIVE FirstErr(_)
\* the exception of the first statement that raises, "none" if none does
FirstErr(vals) ==
    IF vals = <<>> THEN "none"
    ELSE IF IsErr(Head(vals)) THEN Head(vals).k
    ELSE FirstErr(Tail(vals))

Outcome(v) == IF IsErr(v) THEN Raised(v.k) ELSE Returned(v)

calculate_scene_luminance(scene_illuminance, scene_reflectance) ==
    Div(Mul(scene_illuminance, scene_reflectance), MATH_PI)

\* calculate_sensor_illuminance multiplying by 4 * f_number**2
calculate_sensor_illuminance_times(scene_luminance, lens_transmittance, f_number) ==
    LET num == Mul(Mul(scene_luminance, lens_transmittance), MATH_PI)
        den == Mul(Flt(4, 0), Pow2(f_number))
    IN Mul(num, den)

calculate_sensor_illuminance(scene_luminance, lens_transmittance, f_number) ==
    LET num == Mul(Mul(scene_luminance, lens_transmittance), MATH_PI)
        den == Mul(Flt(4, 0), Pow2(f_number))
    IN Div(num, den)

\* calculate_photon_count leaving the exposure time out of the energy
calculate_photon_count_noexp(g, sensor_illuminance, pixel_size_um, exposure_time_ms, wavelength_nm) ==
    LET sensor_irradiance == Div(sensor_illuminance, g.LUX_CONVERSION_FACTOR)
        pixel_size_m == Mul(pixel_size_um, Flt(1, -6))
        pixel_area == Pow2(pixel_size_m)
        wavelength_m == Mul(wavelength_nm, Flt(1, -9))
        photon_energy ==
            Div(Mul(g.PLANCK_CONSTANT, g.SPEED_OF_LIGHT), wavelength_m)
        exposure_time_s == Div(exposure_time_ms, Flt(1000, 0))
        total_energy_per_pixel == Mul(sensor_irradiance, pixel_area)
        photon_count == Div(total_energy_per_pixel, photon_energy)
        exc == FirstErr(<<sensor_irradiance, pixel_area, photon_energy,
                          exposure_time_s, total_energy_per_pixel,
                          photon_count>>)
    IN IF exc # "none" THEN Raised(exc)
       ELSE Returned(
              [photon_count |-> photon_count,
               intermediate |->
                 [sensor_irradiance_w_per_m2 |-> sensor_irradiance,
                  pixel_area_m2 |-> pixel_area,
                  photon_energy_j |-> photon_energy,
                  exposure_time_s |-> exposure_time_s,
                  total_energy_per_pixel_j |-> total_energy_per_pixel]])

calculate_photon_count(g, sensor_illuminance, pixel_size_um, exposure_time_ms, wavelength_nm) ==
    LET sensor_irradiance == Div(sensor_illuminance, g.LUX_CONVERSION_FACTOR)
        pixel_size_m == Mul(pixel_size_um, Flt(1, -6))
        pixel_area == Pow2(pixel_size_m)
        wavelength_m == Mul(wavelength_nm, Flt(1, -9))
        photon_energy ==
            Div(Mul(g.PLANCK_CONSTANT, g.SPEED_OF_LIGHT), wavelength_m)
        exposure_time_s == Div(exposure_time_ms, Flt(1000, 0))
        total_energy_per_pixel ==
            Mul(Mul(sensor_irradiance, pixel_area), exposure_time_s)
        photon_count == Div(total_energy_per_pixel, photon_energy)
        exc == FirstErr(<<sensor_irradiance, pixel_area, photon_energy,
                          exposure_time_s, total_energy_per_pixel,
                          photon_count>>)
    IN IF exc # "none" THEN Raised(exc)
       ELSE Returned(
              [photon_count |-> photon_count,
               intermediate |->
                 [sensor_irradiance_w_per_m2 |-> sensor_irradiance,
                  pixel_area_m2 |-> pixel_area,
                  photon_energy_j |-> photon_energy,
                  exposure_time_s |-> exposure_time_s,
                  total_energy_per_pixel_j |-> total_energy_per_pixel]])

calculate_electrons(photon_count, quantum_efficiency) ==
    Mul(photon_count, quantum_efficiency)

\* lines 170-180: the largest single noise source; max() keeps the first
\* key whose value no later value exceeds
dominant_regime(signal_electrons, dark_electrons, read_noise) ==
    LET shot_noise == Sqrt(PyMax(signal_electrons, Zero))
        dark_noise == Sqrt(PyMax(dark_electrons, Zero))
        best2 == IF Gt(dark_noise, shot_noise) THEN "dark_limited"
                 ELSE "shot_limited"
        v2 == IF Gt(dark_noise, shot_noise) THEN dark_noise ELSE shot_noise
    IN IF Gt(read_noise, v2) THEN "read_limited" ELSE best2

\* determine_noise_regime with the boundary compared by >= instead of >
determine_noise_regime_ge(signal_electrons, dark_electrons, read_noise) ==
    LET total_shot_dark == Sqrt(Add(signal_electrons, dark_electrons))
    IN IF IsErr(total_shot_dark) THEN Raised(total_shot_dark.k)
       ELSE IF Le(Mul(read_noise, Flt(2, 0)), total_shot_dark)
            THEN IF Gt(signal_electrons, Mul(dark_electrons, Flt(2, 0)))
                 THEN Returned(Str("shot_limited"))
                 ELSE IF Gt(dark_electrons, Mul(signal_electrons, Flt(2, 0)))
                      THEN Returned(Str("dark_limited"))
                      ELSE Returned(Str("shot_dark_limited"))
            ELSE Returned(Str("read_limited"))

\* determine_noise_regime falling back on the largest single noise source
\* where neither signal nor dark dominates by 2x
determine_noise_regime_max(signal_electrons, dark_electrons, read_noise) ==
    LET total_shot_dark == Sqrt(Add(signal_electrons, dark_electrons))
    IN IF IsErr(total_shot_dark) THEN Raised(total_shot_dark.k)
       ELSE IF Gt(total_shot_dark, Mul(read_noise, Flt(2, 0)))
            THEN IF Gt(signal_electrons, Mul(dark_electrons, Flt(2, 0)))
                 THEN Returned(Str("shot_limited"))
                 ELSE IF Gt(dark_electrons, Mul(signal_electrons, Flt(2, 0)))
                      THEN Returned(Str("dark_limited"))
                      ELSE Returned(Str(dominant_regime(
                                signal_electrons, dark_electrons, read_noise)))
            ELSE Returned(Str("read_limited"))

determine_noise_regime(signal_electrons, dark_electrons, read_noise) ==
    LET total_shot_dark == Sqrt(Add(signal_electrons, dark_electrons))
    IN IF IsErr(total_shot_dark) THEN Raised(total_shot_dark.k)
       ELSE IF Gt(total_shot_dark, Mul(read_noise, Flt(2, 0)))
            THEN IF Gt(signal_electrons, Mul(dark_electrons, Flt(2, 0)))
                 THEN Returned(Str("shot_limited"))
                 ELSE IF Gt(dark_electrons, Mul(signal_electrons, Flt(2, 0)))
                      THEN Returned(Str("dark_limited"))
                      ELSE Returned(Str("shot_dark_limited"))
            ELSE Returned(Str("read_limited"))

\* the locals of calculate_noise_analysis after line 136; divides and
\* takes_log tell which branch of lines 132 and 133 was evaluated
noise_analysis_locals(signal_electrons, exposure_time_ms, read_noise_electrons, dark_current_e_per_s) ==
    LET exposure_time_s == Div(exposure_time_ms, Flt(1000, 0))
        dark_electrons == Mul(dark_current_e_per_s, exposure_time_s)
        total_noise ==
            Sqrt(Add(Add(signal_electrons, dark_electrons),
                     Pow2(read_noise_electrons)))
        divides == ~IsErr(total_noise) /\ Gt(total_noise, Zero)
        snr == IF divides THEN Div(signal_electrons, total_noise) ELSE Zero
        takes_log == ~IsErr(total_noise) /\ Gt(snr, Zero)
    IN [exposure_time_s |-> exposure_time_s,
        dark_electrons |-> dark_electrons,
        shot_noise |-> Sqrt(PyMax(signal_electrons, Zero)),
        dark_noise |-> Sqrt(PyMax(dark_electrons, Zero)),
        read_noise |-> read_noise_electrons,
        total_noise |-> total_noise,
        divides |-> divides,
        snr |-> snr,
        takes_log |-> takes_log,
        snr_db |-> IF takes_log THEN Mul(Flt(20, 0), Log10(snr)) ELSE Inf(-1),
        noise_regime |->
            determine_noise_regime(signal_electrons, dark_electrons,
                                   read_noise_electrons)]

\* lines 138-153: the returned dict, or the exception of the first statement
\* that raised, from the locals l
noise_analysis_result(signal_electrons, l) ==
    LET exc == FirstErr(<<l.exposure_time_s, l.dark_electrons, l.shot_noise,
                          l.dark_noise, l.total_noise>>)
    IN IF exc # "none" THEN Raised(exc)
       ELSE IF l.noise_regime.exc # "none" THEN Raised(l.noise_regime.exc)
       ELSE Returned(
              [signal_electrons |-> signal_electrons,
               dark_electrons |-> l.dark_electrons,
               noise_components |->
                 [shot_noise |-> l.shot_noise,
                  dark_noise |-> l.dark_noise,
                  read_noise |-> l.read_noise,
                  total_noise |-> l.total_noise],
               snr |-> [linear |-> l.snr, db |-> l.snr_db],
               noise_regime |-> l.noise_regime.val,
               exposure_time_s |-> l.exposure_time_s])

calculate_noise_analysis(signal_electrons, exposure_time_ms, read_noise_electrons, dark_current_e_per_s) ==
    CHOOSE o \in {noise_analysis_result(signal_electrons, l) :
                    l \in {noise_analysis_locals(signal_electrons,
                                                 exposure_time_ms,
                                                 read_noise_electrons,
                                                 dark_current_e_per_s)}} : TRUE

(***************************************************************************)
(* Callers: direct calls of the six functions, and calculate_full_chain    *)
(* executed statement by statement.                                        *)
(***************************************************************************)

VARIABLES
    G,      \* the module namespace (lines 9-11)
    pc,     \* position inside the running calculate_full_chain, or "idle"
    frame,  \* locals of the running calculate_full_chain
    call,   \* the most recently completed call: function, arguments, outcome
    kept    \* an earlier completed call the caller still holds

\* launch_dashboard of start_dashboard.py (lines 38-117) and the child
\* processes it starts
VARIABLES
    at,         \* position inside launch_dashboard
    cmd,        \* index into launch_commands of the for loop (line 57)
    success,    \* the local success (lines 56, 67)
    process,    \* the command whose Popen object is bound to process; 0 = unbound
    procs,      \* per command: what Popen did and the state of its child
    started,    \* the commands handed to subprocess.Popen, in call order
    terminated, \* the commands whose child got process.terminate()
    returned    \* how launch_dashboard ended: "none" while it runs

launcher == <<at, cmd, success, process, procs, started, terminated, returned>>

vars == <<G, pc, frame, call, kept, at, cmd, success, process, procs, started, terminated, returned>>

NoCall == [fn |-> "none"]

\* lines 47-54: the three launch commands, in list order
launch_commands ==
    << "python -m voila light_calculator_dashboard.ipynb --enable_nbextensions=True",
       "voila light_calculator_dashboard.ipynb --enable_nbextensions=True",
       "python -m voila light_calculator_dashboard.ipynb" >>
NoFrame == [args |-> None]

StageOrder ==
    <<"calculate_scene_luminance", "calculate_sensor_illuminance",
      "calculate_photon_count", "calculate_electrons",
      "calculate_noise_analysis">>

\* calculate_photon_count rebinding the module's conversion factor
GlobalsAfterDrift(g, fn) ==
    IF fn = "calculate_photon_count"
    THEN [g EXCEPT !.LUX_CONVERSION_FACTOR = Add(@, Flt(1, 0))]
    ELSE g

\* no function assigns a module-level name: the namespace after a call
GlobalsAfter(g, fn) == g

Completed(fn, args, o) ==
    [fn |-> fn, args |-> args, exc |-> o.exc, val |-> o.val]

\* argument values the callers draw from
Rich ==
    [illuminance |-> {Flt(500, 0), Flt(1, 308)},
     reflectance |-> {Zero, Flt(18, -2), Flt(1, 0), Flt(-18, -2)},
     luminance |-> {Zero, Flt(286, -1), Flt(1, 308)},
     transmittance |-> {Zero, Flt(9, -1), Flt(1, 0)},
     f_number |-> {Zero, Flt(1, -200), Flt(1, -3), Flt(2, 0), Flt(28, -1),
                   Flt(1, 200)},
     sensor_lux |-> {Zero, Flt(258, -2), Inf(1)},
     pixel_size |-> {Flt(4, 0), Flt(1, 200)},
     exposure |-> {Zero, Flt(10, 0), Flt(1000, 0)},
     wavelength |-> {Zero, Flt(550, 0)},
     photons |-> {Zero, Flt(1680, 0), NaN},
     qe |-> {Zero, Flt(6, -1), Flt(1, 0)},
     electrons |-> {Flt(-9, 0), Flt(-1, 0), Zero, Flt(4, 0), Flt(8, 0),
                    Flt(10, 0), Flt(16, 0), Flt(36, 0), Flt(1000, 0), NaN},
     read_noise |-> {Zero, Flt(1, 0), Flt(2, 0), Flt(3, 0)},
     dark_rate |-> {Zero, Flt(1, -1), Flt(-1, 0), Flt(16, 0)},
     chain_f_number |-> {Zero, Flt(1, -3), Flt(28, -1), Flt(1, 200)},
     chain_exposure |-> {Zero, Flt(10, 0)},
     chain_qe |-> {Flt(6, -1)},
     chain_read_noise |-> {Flt(3, 0)},
     chain_dark_rate |-> {Flt(1, -1)}]

\* a smaller choice of arguments, for callers that hold on to an earlier
\* result; its luminances are the scene luminances of valid scenes
Small ==
    [illuminance |-> {Flt(500, 0)},
     reflectance |-> {Zero, Flt(18, -2)},
     luminance |-> {calculate_scene_luminance(i, r) :
                      i \in {Flt(500, 0), Flt(1, 308)},
                      r \in {Zero, Flt(18, -2), Flt(1, 0)}},
     transmittance |-> {Zero, Flt(9, -1), Flt(1, 0)},
     f_number |-> {Zero, Flt(1, -3), Flt(2, 0), Flt(28, -1)},
     sensor_lux |-> {Zero, Flt(258, -2)},
     pixel_size |-> {Flt(4, 0)},
     exposure |-> {Zero, Flt(10, 0)},
     wavelength |-> {Zero, Flt(550, 0)},
     photons |-> {Zero, Flt(1680, 0)},
     qe |-> {Flt(6, -1), Flt(1, 0)},
     electrons |-> {Flt(-1, 0), Flt(4, 0), Flt(16, 0)},
     read_noise |-> {Flt(2, 0)},
     dark_rate |-> {Flt(1, -1)},
     chain_f_number |-> {Zero, Flt(28, -1)},
     chain_exposure |-> {Zero, Flt(10, 0)},
     chain_qe |-> {Flt(6, -1)},
     chain_read_noise |-> {Flt(3, 0)},
     chain_dark_rate |-> {Flt(1, -1)}]

CallSceneLuminance(D) ==
    /\ pc = "idle"
    /\ call = NoCall
    /\ \E i \in D.illuminance, r \in D.reflectance :
         call' = Completed("calculate_scene_luminance", <<i, r>>,
                           Outcome(calculate_scene_luminance(i, r)))
    /\ G' = GlobalsAfter(G, "calculate_scene_luminance")
    /\ UNCHANGED <<pc, frame, kept, launcher>>

CallSensorIlluminance(D) ==
    /\ pc = "idle"
    /\ call = NoCall
    /\ \E l \in D.luminance, t \in D.transmittance, f \in D.f_number :
         call' = Completed("calculate_sensor_illuminance", <<l, t, f>>,
                           Outcome(calculate_sensor_illuminance(l, t, f)))
    /\ G' = GlobalsAfter(G, "calculate_sensor_illuminance")
    /\ UNCHANGED <<pc, frame, kept, launcher>>

CallPhotonCount(D) ==
    /\ pc = "idle"
    /\ call = NoCall
    /\ \E e \in D.sensor_lux, p \in D.pixel_size, x \in D.exposure,
          w \in D.wavelength :
         call' = Completed("calculate_photon_count", <<e, p, x, w>>,
                           calculate_photon_count(G, e, p, x, w))
    /\ G' = GlobalsAfter(G, "calculate_photon_count")
    /\ UNCHANGED <<pc, frame, kept, launcher>>

CallElectrons(D) ==
    /\ pc = "idle"
    /\ call = NoCall
    /\ \E n \in D.photons, q \in D.qe :
         call' = Completed("calculate_electrons", <<n, q>>,
                           Outcome(calculate_electrons(n, q)))
    /\ G' = GlobalsAfter(G, "calculate_electrons")
    /\ UNCHANGED <<pc, frame, kept, launcher>>

CallNoiseAnalysis(D) ==
    /\ pc = "idle"
    /\ call = NoCall
    /\ \E s \in D.electrons, x \in D.exposure, r \in D.read_noise,
          d \in D.dark_rate :
         call' = Completed("calculate_noise_analysis", <<s, x, r, d>>,
                           calculate_noise_analysis(s, x, r, d))
    /\ G' = GlobalsAfter(G, "calculate_noise_analysis")
    /\ UNCHANGED <<pc, frame, kept, launcher>>

CallNoiseRegime(D) ==
    /\ pc = "idle"
    /\ call = NoCall
    /\ \E s \in D.electrons, d \in D.electrons, r \in D.read_noise :
         call' = Completed("determine_noise_regime", <<s, d, r>>,
                           determine_noise_regime(s, d, r))
    /\ G' = GlobalsAfter(G, "determine_noise_regime")
    /\ UNCHANGED <<pc, frame, kept, launcher>>

\* an exception leaves calculate_full_chain: nothing is returned
ChainRaise(stage, o) ==
    /\ pc' = "idle"
    /\ frame' = NoFrame
    /\ call' = [fn |-> "calculate_full_chain", args |-> frame.args,
                exc |-> o.exc, val |-> None,
                stages |-> Append(frame.stages,
                                  [stage |-> stage, exc |-> o.exc])]

\* a stage returned: its result is bound to a local and the next
\* statement runs
ChainAdvance(stage, local, o, next) ==
    /\ pc' = next
    /\ frame' = [frame EXCEPT ![local] = o.val,
                              !.stages = Append(frame.stages,
                                                [stage |-> stage,
                                                 exc |-> o.exc])]
    /\ UNCHANGED call

\* a statement that swallows the stage's exception and goes on
ChainStatementSkip(stage, local, o, next) ==
    ChainAdvance(stage, local, o, next)

\* one statement of calculate_full_chain: the call of a stage
ChainStatement(stage, local, o, next) ==
    IF o.exc # "none" THEN ChainRaise(stage, o)
    ELSE ChainAdvance(stage, local, o, next)

\* calculate_full_chain is entered with its ten arguments
ChainCall(D) ==
    /\ pc = "idle"
    /\ call = NoCall
    /\ \E i \in D.illuminance, r \in D.reflectance, t \in D.transmittance,
          f \in D.chain_f_number, p \in D.pixel_size, x \in D.chain_exposure,
          w \in D.wavelength, q \in D.chain_qe, n \in D.chain_read_noise,
          d \in D.chain_dark_rate :
         frame' = [args |-> [scene_illuminance |-> i,
                             scene_reflectance |-> r,
                             lens_transmittance |-> t,
                             f_number |-> f,
                             pixel_size_um |-> p,
                             exposure_time_ms |-> x,
                             wavelength_nm |-> w,
                             quantum_efficiency |-> q,
                             read_noise_electrons |-> n,
                             dark_current_e_per_s |-> d],
                   scene_luminance |-> None,
                   sensor_illuminance |-> None,
                   photon |-> None,
                   electron_count |-> None,
                   noise_analysis |-> None,
                   stages |-> <<>>]
    /\ pc' = "step1"
    /\ UNCHANGED call
    /\ UNCHANGED <<G, kept, launcher>>

Step1 ==
    /\ pc = "step1"
    /\ ChainStatement("calculate_scene_luminance", "scene_luminance",
         Outcome(calculate_scene_luminance(frame.args.scene_illuminance,
                                           frame.args.scene_reflectance)),
         "step2")
    /\ G' = GlobalsAfter(G, "calculate_scene_luminance")
    /\ UNCHANGED <<kept, launcher>>

Step2 ==
    /\ pc = "step2"
    /\ ChainStatement("calculate_sensor_illuminance", "sensor_illuminance",
         Outcome(calculate_sensor_illuminance(frame.scene_luminance,
                                              frame.args.lens_transmittance,
                                              frame.args.f_number)),
         "step3")
    /\ G' = GlobalsAfter(G, "calculate_sensor_illuminance")
    /\ UNCHANGED <<kept, launcher>>

Step3 ==
    /\ pc = "step3"
    /\ ChainStatement("calculate_photon_count", "photon",
         calculate_photon_count(G, frame.sensor_illuminance,
                                frame.args.pixel_size_um,
                                frame.args.exposure_time_ms,
                                frame.args.wavelength_nm),
         "step4")
    /\ G' = GlobalsAfter(G, "calculate_photon_count")
    /\ UNCHANGED <<kept, launcher>>

Step4 ==
    /\ pc = "step4"
    /\ ChainStatement("calculate_electrons", "electron_count",
         Outcome(calculate_electrons(frame.photon.photon_count,
                                     frame.args.quantum_efficiency)),
         "step5")
    /\ G' = GlobalsAfter(G, "calculate_electrons")
    /\ UNCHANGED <<kept, launcher>>

Step5 ==
    /\ pc = "step5"
    /\ ChainStatement("calculate_noise_analysis", "noise_analysis",
         calculate_noise_analysis(frame.electron_count,
                                  frame.args.exposure_time_ms,
                                  frame.args.read_noise_electrons,
                                  frame.args.dark_current_e_per_s),
         "return")
    /\ G' = GlobalsAfter(G, "calculate_noise_analysis")
    /\ UNCHANGED <<kept, launcher>>

\* the result bundle with the photon count filed as the electron count
ChainReturnPhotons ==
    /\ pc = "return"
    /\ call' = [fn |-> "calculate_full_chain", args |-> frame.args,
                exc |-> "none",
                val |-> [inputs |-> frame.args,
                         results |->
                           [scene_luminance_nits |-> frame.scene_luminance,
                            sensor_illuminance_lux |-> frame.sensor_illuminance,
                            photon_count |-> frame.photon.photon_count,
                            electron_count |-> frame.photon.photon_count],
                         noise_analysis |-> frame.noise_analysis,
                         intermediates |-> frame.photon.intermediate],
                stages |-> frame.stages]
    /\ pc' = "idle"
    /\ frame' = NoFrame
    /\ UNCHANGED <<G, kept, launcher>>

\* lines 236-257: the result bundle
ChainReturn ==
    /\ pc = "return"
    /\ call' = [fn |-> "calculate_full_chain", args |-> frame.args,
                exc |-> "none",
                val |-> [inputs |-> frame.args,
                         results |->
                           [scene_luminance_nits |-> frame.scene_luminance,
                            sensor_illuminance_lux |-> frame.sensor_illuminance,
                            photon_count |-> frame.photon.photon_count,
                            electron_count |-> frame.electron_count],
                         noise_analysis |-> frame.noise_analysis,
                         intermediates |-> frame.photon.intermediate],
                stages |-> frame.stages]
    /\ pc' = "idle"
    /\ frame' = NoFrame
    /\ UNCHANGED <<G, kept, launcher>>

\* the caller stores the value it was just handed and moves on
Remember ==
    /\ pc = "idle"
    /\ call.fn # "none"
    /\ kept' = call
    /\ call' = NoCall
    /\ UNCHANGED <<G, pc, frame, launcher>>

\* the caller is done with the value of the last call
Drop ==
    /\ pc = "idle"
    /\ call.fn # "none"
    /\ call' = NoCall
    /\ UNCHANGED <<G, pc, frame, kept, launcher>>

Init ==
    /\ G = ModuleGlobals
    /\ pc = "idle"
    /\ frame = NoFrame
    /\ call = NoCall
    /\ kept = NoCall
    /\ at = "popen"
    /\ cmd = 1
    /\ success = FALSE
    /\ process = 0
    /\ procs = [i \in 1..Len(launch_commands) |-> "untried"]
    /\ started = <<>>
    /\ terminated = {}
    /\ returned = "none"

Next ==
    \/ CallSceneLuminance(Rich)
    \/ CallSensorIlluminance(Rich)
    \/ CallPhotonCount(Rich)
    \/ CallElectrons(Rich)
    \/ CallNoiseAnalysis(Rich)
    \/ CallNoiseRegime(Rich)
    \/ ChainCall(Rich)
    \/ Step1
    \/ Step2
    \/ Step3
    \/ Step4
    \/ Step5
    \/ ChainReturn
    \/ Drop

Spec == Init /\ [][Next]_vars

\* callers that keep an earlier result while they go on calling
NextPairs ==
    \/ CallSceneLuminance(Small)
    \/ CallSensorIlluminance(Small)
    \/ CallPhotonCount(Small)
    \/ CallElectrons(Small)
    \/ CallNoiseAnalysis(Small)
    \/ CallNoiseRegime(Small)
    \/ ChainCall(Small)
    \/ Step1
    \/ Step2
    \/ Step3
    \/ Step4
    \/ Step5
    \/ ChainReturn
    \/ Remember
    \/ Drop

SpecPairs == Init /\ [][NextPairs]_vars

(***************************************************************************)
(* start_dashboard.launch_dashboard, statement by statement, with the      *)
(* child processes as the environment.  subprocess.Popen either returns a  *)
(* Popen object for a started child or raises; a started child runs until  *)
(* it exits by itself or is terminated.  KeyboardInterrupt reaches the     *)
(* function where it blocks: in time.sleep (lines 64, 94) and in           *)
(* process.wait (line 99).                                                 *)
(***************************************************************************)

\* what subprocess.Popen (line 61) can do: return an object for a started
\* child, or raise.  PermissionError stands for every exception that is
\* neither a SubprocessError nor a FileNotFoundError (a file on PATH that
\* is not executable, an exec format error, no more file descriptors).
PopenOutcomes ==
    {"running", "FileNotFoundError", "SubprocessError", "PermissionError"}

\* line 74: the exceptions the handler inside the loop catches
CaughtInLoop == {"FileNotFoundError", "SubprocessError"}

calculator == <<G, pc, frame, call, kept>>

\* lines 72, 75 and 57: continue; the for loop takes the next command, or
\* ends after the last one (line 77 follows)
Continue ==
    IF cmd < Len(launch_commands)
    THEN /\ cmd' = cmd + 1
         /\ at' = "popen"
    ELSE /\ cmd' = cmd
         /\ at' = "after_loop"

\* line 61: subprocess.Popen(cmd, ...).  A caught exception continues the
\* loop (lines 74-75); any other exception leaves the loop and the outer
\* try for the handler of lines 113-117, which returns False.
Popen ==
    /\ at = "popen"
    /\ \E o \in PopenOutcomes :
        /\ started' = Append(started, cmd)
        /\ procs' = [procs EXCEPT ![cmd] = o]
        /\ IF o = "running"
           THEN /\ process' = cmd
                /\ at' = "sleep"
                /\ UNCHANGED <<cmd, returned>>
           ELSE IF o \in CaughtInLoop
           THEN /\ Continue
                /\ UNCHANGED <<process, returned>>
           ELSE /\ at' = "done"
                /\ returned' = "False"
                /\ UNCHANGED <<cmd, process>>
    /\ UNCHANGED <<success, terminated>>
    /\ UNCHANGED calculator

\* line 64: time.sleep(2) returns
Sleep ==
    /\ at = "sleep"
    /\ at' = "poll"
    /\ UNCHANGED <<cmd, success, process, procs, started, terminated, returned>>
    /\ UNCHANGED calculator

\* lines 66-72: process.poll() is None: success and break; otherwise continue
Poll ==
    /\ at = "poll"
    /\ IF procs[process] = "running"
       THEN /\ success' = TRUE
            /\ at' = "after_loop"
            /\ UNCHANGED cmd
       ELSE /\ Continue
            /\ UNCHANGED success
    /\ UNCHANGED <<process, procs, started, terminated, returned>>
    /\ UNCHANGED calculator

\* lines 77-111: if success the launcher announces the server and stays;
\* else it returns False
AfterLoop ==
    /\ at = "after_loop"
    /\ IF success
       THEN /\ at' = "keepalive"
            /\ UNCHANGED returned
       ELSE /\ at' = "done"
            /\ returned' = "False"
    /\ UNCHANGED <<cmd, success, process, procs, started, terminated>>
    /\ UNCHANGED calculator

\* lines 93-94: while True: time.sleep(1)
KeepAlive ==
    /\ at = "keepalive"
    /\ UNCHANGED launcher
    /\ UNCHANGED calculator

\* KeyboardInterrupt.  In time.sleep(2) (line 64) no handler catches it
\* (except Exception does not catch KeyboardInterrupt): it leaves the
\* function.  In the keep-alive loop the handler of line 95 runs.  In
\* process.wait the bare except of line 100 swallows it and line 104
\* returns True.
KeyboardInterrupt ==
    /\ \/ /\ at = "sleep"
          /\ at' = "done"
          /\ returned' = "KeyboardInterrupt"
       \/ /\ at = "keepalive"
          /\ at' = "terminate"
          /\ UNCHANGED returned
       \/ /\ at = "wait"
          /\ at' = "done"
          /\ returned' = "True"
    /\ UNCHANGED <<cmd, success, process, procs, started, terminated>>
    /\ UNCHANGED calculator

\* line 98: process.terminate()
Terminate ==
    /\ at = "terminate"
    /\ terminated' = terminated \cup {process}
    /\ at' = "wait"
    /\ UNCHANGED <<cmd, success, process, procs, started, returned>>
    /\ UNCHANGED calculator

\* lines 99-104: process.wait(timeout=5) returns once the child has exited,
\* or raises TimeoutExpired for a child that is still running, which the
\* bare except swallows; either way line 104 returns True
Wait ==
    /\ at = "wait"
    /\ \/ /\ procs[process] = "running"
          /\ \/ procs' = [procs EXCEPT ![process] = "exited"]
             \/ UNCHANGED procs
       \/ /\ procs[process] = "exited"
          /\ UNCHANGED procs
    /\ at' = "done"
    /\ returned' = "True"
    /\ UNCHANGED <<cmd, success, process, started, terminated>>
    /\ UNCHANGED calculator

\* a started child exits by itself (voila fails, or its server stops)
ProcessExits ==
    /\ at # "done"
    /\ \E i \in 1..Len(launch_commands) :
        /\ procs[i] = "running"
        /\ procs' = [procs EXCEPT ![i] = "exited"]
    /\ UNCHANGED <<at, cmd, success, process, started, terminated, returned>>
    /\ UNCHANGED calculator

NextDashboard ==
    \/ Popen
    \/ Sleep
    \/ Poll
    \/ AfterLoop
    \/ KeepAlive
    \/ KeyboardInterrupt
    \/ Terminate
    \/ Wait
    \/ ProcessExits

SpecDashboard == Init /\ [][NextDashboard]_vars

(***************************************************************************)
(* Properties                                                              *)
(***************************************************************************)

Two == Flt(2, 0)
IsRegimeCall == call.fn = "determine_noise_regime"
IsNoiseCall == call.fn = "calculate_noise_analysis"

\* C1: determine_noise_regime returns 'read_limited' whenever
\* signal + dark >= 0 and sqrt(signal + dark) <= 2 * read_noise, the case
\* of equality included.
C1_ReadLimitedAtOrBelowBoundary ==
    IsRegimeCall =>
        LET sum == Add(call.args[1], call.args[2])
        IN (Le(Zero, sum) /\ Le(Sqrt(sum), Mul(call.args[3], Two)))
             => (call.exc = "none" /\ call.val = Str("read_limited"))

\* C1 witness: a call with sqrt(signal + dark) = 2 * read_noise > 0 exactly
C1_Witness ==
    /\ IsRegimeCall
    /\ Gt(call.args[3], Zero)
    /\ Eq(Sqrt(Add(call.args[1], call.args[2])), Mul(call.args[3], Two))
    /\ call.exc = "none"
    /\ call.val = Str("read_limited")

\* C2: whenever sqrt(signal + dark) > 2 * read_noise the regime follows the
\* 2x thresholds alone (shot_limited if signal > 2*dark, else dark_limited
\* if dark > 2*signal, else shot_dark_limited), and for every input that
\* returns, the regime is the threshold rule's, whatever the largest
\* single noise source is.
C2_ThresholdsAloneDecide ==
    (IsRegimeCall /\ call.exc = "none") =>
        LET s == call.args[1]
            d == call.args[2]
            r == call.args[3]
        IN call.val =
             Str(IF Gt(Sqrt(Add(s, d)), Mul(r, Two))
                 THEN IF Gt(s, Mul(d, Two)) THEN "shot_limited"
                      ELSE IF Gt(d, Mul(s, Two)) THEN "dark_limited"
                      ELSE "shot_dark_limited"
                 ELSE "read_limited")

\* C2 witness: signal = dark above the read-noise boundary; the largest
\* single source says shot_limited, the result is shot_dark_limited
C2_Witness ==
    /\ IsRegimeCall
    /\ call.exc = "none"
    /\ Eq(call.args[1], call.args[2])
    /\ Gt(Sqrt(Add(call.args[1], call.args[2])), Mul(call.args[3], Two))
    /\ dominant_regime(call.args[1], call.args[2], call.args[3])
         = "shot_limited"
    /\ call.val = Str("shot_dark_limited")

\* the dark electrons calculate_noise_analysis derives from its arguments
DarkOf(args) == Mul(args[4], Div(args[2], Flt(1000, 0)))

\* C3: calculate_noise_analysis never fails on negative electron inputs:
\* with signal_electrons or dark_electrons negative it returns a
\* NoiseAnalysis whose square roots are taken of the value floored to 0.
C3_NegativeElectronsNeverFail ==
    (IsNoiseCall /\ (Lt(call.args[1], Zero) \/ Lt(DarkOf(call.args), Zero)))
        => /\ call.exc = "none"
           /\ call.val.noise_components.shot_noise
                = Sqrt(PyMax(call.args[1], Zero))
           /\ call.val.noise_components.dark_noise
                = Sqrt(PyMax(DarkOf(call.args), Zero))

\* C5: whenever signal + dark + read_noise^2 is 0 (total_noise = 0),
\* calculate_noise_analysis returns snr linear = 0 and snr db = -infinity
\* without evaluating the division or the logarithm.
C5_ZeroTotalNoise ==
    LET l == noise_analysis_locals(call.args[1], call.args[2],
                                   call.args[3], call.args[4])
    IN (IsNoiseCall /\ IsZero(l.total_noise))
         => /\ call.exc = "none"
            /\ call.val.snr.linear = Zero
            /\ call.val.snr.db = Inf(-1)
            /\ ~l.divides
            /\ ~l.takes_log

IsSensorCall == call.fn = "calculate_sensor_illuminance"
IsPhotonCall == call.fn = "calculate_photon_count"
IsChainCall == call.fn = "calculate_full_chain"

\* C4 as claimed: a zero f_number or wavelength yields infinity, not an
\* error: both stage functions return an infinite value and
\* calculate_full_chain still returns a bundle.
C4_ZeroDivisorYieldsInfinity ==
    /\ (IsSensorCall /\ IsZero(call.args[3]))
         => (call.exc = "none" /\ IsInf(call.val))
    /\ (IsPhotonCall /\ IsZero(call.args[4]))
         => (call.exc = "none" /\ IsInf(call.val.photon_count))
    /\ (IsChainCall /\ (IsZero(call.args.f_number)
                          \/ IsZero(call.args.wavelength_nm)))
         => call.exc = "none"

\* C4 amended: a zero f_number or wavelength raises: the sensor stage
\* ends in ZeroDivisionError, the photon stage in ZeroDivisionError unless
\* pixel_size_um**2 raised OverflowError first, and calculate_full_chain
\* raises and returns no bundle (ZeroDivisionError from the sensor stage
\* when f_number = 0).
C4_ZeroDivisorRaises ==
    /\ (IsSensorCall /\ IsZero(call.args[3]))
         => (call.exc = "ZeroDivisionError" /\ call.val = None)
    /\ (IsPhotonCall /\ IsZero(call.args[4]))
         => /\ call.val = None
            /\ call.exc = IF IsErr(Pow2(Mul(call.args[2], Flt(1, -6))))
                          THEN "OverflowError" ELSE "ZeroDivisionError"
    /\ (IsChainCall /\ IsZero(call.args.f_number))
         => /\ call.exc = "ZeroDivisionError"
            /\ call.val = None
            /\ Len(call.stages) = 2
    /\ (IsChainCall /\ IsZero(call.args.wavelength_nm))
         => (call.exc # "none" /\ call.val = None)

\* C4 witness: the chain called with wavelength 0 and a usable f_number
\* ends in ZeroDivisionError at the photon stage
C4_Witness ==
    /\ IsChainCall
    /\ IsZero(call.args.wavelength_nm)
    /\ ~IsZero(call.args.f_number)
    /\ call.exc = "ZeroDivisionError"
    /\ Len(call.stages) = 3

\* the electron count obtained by calling the stages by hand, in order
ElectronsByHand(a) ==
    LET lum == calculate_scene_luminance(a.scene_illuminance,
                                         a.scene_reflectance)
        sen == calculate_sensor_illuminance(lum, a.lens_transmittance,
                                            a.f_number)
        ph == calculate_photon_count(G, sen, a.pixel_size_um,
                                     a.exposure_time_ms, a.wavelength_nm)
    IN IF ph.exc # "none" THEN Raise(ph.exc)
       ELSE calculate_electrons(ph.val.photon_count, a.quantum_efficiency)

\* C6: the electron_count a returned bundle holds, and the signal_electrons
\* of its noise analysis, are the value obtained by calling the four
\* stages by hand in order.
C6_ElectronCountIsStagewise ==
    (IsChainCall /\ call.exc = "none") =>
        /\ call.val.results.electron_count = ElectronsByHand(call.args)
        /\ call.val.noise_analysis.signal_electrons
             = ElectronsByHand(call.args)

\* C6 witness: a bundle for a valid scene with a positive finite count
C6_Witness ==
    /\ IsChainCall
    /\ call.exc = "none"
    /\ IsFin(call.val.results.electron_count)
    /\ Gt(call.val.results.electron_count, Zero)
    /\ Gt(call.args.scene_reflectance, Zero)
    /\ call.val.results.electron_count
         # call.val.results.photon_count

StepIndex(p) ==
    CASE p = "step1" -> 1 [] p = "step2" -> 2 [] p = "step3" -> 3
      [] p = "step4" -> 4 [] p = "step5" -> 5 [] p = "return" -> 6

\* the stages of a trace are the first stages of the chain, in order
InOrder(stages) ==
    /\ Len(stages) <= Len(StageOrder)
    /\ \A i \in 1..Len(stages) : stages[i].stage = StageOrder[i]

\* C7: a failing stage aborts calculate_full_chain: the call raises that
\* stage's exception and returns nothing, no later stage runs, and the
\* stages that ran are the first ones in order, each exactly once.
C7_StageFailureAbortsChain ==
    /\ pc # "idle" =>
         /\ Len(frame.stages) = StepIndex(pc) - 1
         /\ InOrder(frame.stages)
         /\ \A i \in 1..Len(frame.stages) : frame.stages[i].exc = "none"
    /\ IsChainCall =>
         LET n == Len(call.stages)
         IN /\ InOrder(call.stages)
            /\ \A i \in 1..(n - 1) : call.stages[i].exc = "none"
            /\ n >= 1
            /\ call.stages[n].exc = call.exc
            /\ call.exc = "none" => (n = 5 /\ call.val # None)
            /\ call.exc # "none" => call.val = None

\* C7 witness: the noise analysis fails after four stages succeeded
C7_Witness ==
    /\ IsChainCall
    /\ call.exc = "ValueError"
    /\ Len(call.stages) = 5
    /\ call.val = None

One == Flt(1, 0)

\* a luminance calculate_scene_luminance gives for a valid scene
\* (illuminance > 0, reflectance in 0..1)
ValidLuminance(l) ==
    \E i \in Rich.illuminance, r \in Rich.reflectance :
        /\ Gt(i, Zero)
        /\ Le(Zero, r)
        /\ Le(r, One)
        /\ l = calculate_scene_luminance(i, r)

\* two calls of calculate_sensor_illuminance, kept and call, on the same
\* valid luminance and transmittance, with f-numbers 0 < F1 < F2
SameSceneLargerF ==
    /\ kept.fn = "calculate_sensor_illuminance"
    /\ IsSensorCall
    /\ kept.args[1] = call.args[1]
    /\ kept.args[2] = call.args[2]
    /\ ValidLuminance(call.args[1])
    /\ Le(Zero, call.args[2])
    /\ Le(call.args[2], One)
    /\ Gt(kept.args[3], Zero)
    /\ Gt(call.args[3], kept.args[3])

\* C8 as claimed: for a valid scene and 0 < F1 < F2 the sensor illuminance
\* at F2 is strictly smaller than at F1.
C8_StrictlyDecreasingInF ==
    SameSceneLargerF =>
        /\ kept.exc = "none"
        /\ call.exc = "none"
        /\ Lt(call.val, kept.val)

\* smallest positive normal float (sys.float_info.min); below it a quotient
\* is subnormal and keeps fewer digits
MinNormal == Flt(22250739, -315)

IsNormal(x) == IsFin(x) /\ (Le(MinNormal, x) \/ Le(x, Mul(Flt(-1, 0), MinNormal)))

\* C8 amended: for a valid scene and 0 < F1 < F2 for which both calls
\* return, the sensor illuminance at F2 is never larger than at F1; it is 0
\* at both when luminance (reflectance) or transmittance is 0; it is
\* strictly smaller when luminance * transmittance * pi is positive and
\* finite, F2 is at least twice F1 and neither quotient is infinite, 0 or
\* subnormal.
C8_DecreasingInF ==
    (SameSceneLargerF /\ kept.exc = "none" /\ call.exc = "none") =>
        LET num == Mul(Mul(call.args[1], call.args[2]), MATH_PI)
        IN /\ ~Gt(call.val, kept.val)
           /\ (IsZero(call.args[1]) \/ IsZero(call.args[2]))
                => (call.val = Zero /\ kept.val = Zero)
           /\ (/\ Gt(num, Zero)
               /\ IsFin(num)
               /\ Le(Mul(Two, kept.args[3]), call.args[3])
               /\ IsNormal(kept.val)
               /\ IsNormal(call.val))
                => Lt(call.val, kept.val)

\* C8 witness: a larger f-number gave a strictly smaller illuminance
C8_Witness ==
    /\ SameSceneLargerF
    /\ kept.exc = "none"
    /\ call.exc = "none"
    /\ Gt(call.val, Zero)
    /\ IsFin(kept.val)
    /\ Lt(call.val, kept.val)

FiniteChainArgs(a) ==
    /\ IsFin(a.scene_illuminance) /\ IsFin(a.scene_reflectance)
    /\ IsFin(a.lens_transmittance) /\ IsFin(a.f_number)
    /\ IsFin(a.pixel_size_um) /\ IsFin(a.exposure_time_ms)
    /\ IsFin(a.wavelength_nm) /\ IsFin(a.quantum_efficiency)
    /\ IsFin(a.read_noise_electrons) /\ IsFin(a.dark_current_e_per_s)

\* zero exposure, everything else finite (photon stage arguments)
ZeroExposurePhoton ==
    /\ IsPhotonCall
    /\ IsFin(call.args[1]) /\ IsFin(call.args[2]) /\ IsFin(call.args[4])
    /\ IsZero(call.args[3])
    /\ Gt(call.args[4], Zero)

\* zero exposure, everything else finite, f_number > 0, wavelength > 0
ZeroExposureChain ==
    /\ IsChainCall
    /\ FiniteChainArgs(call.args)
    /\ IsZero(call.args.exposure_time_ms)
    /\ Gt(call.args.f_number, Zero)
    /\ Gt(call.args.wavelength_nm, Zero)

PhotonCountIsZero ==
    /\ call.exc = "none"
    /\ call.val.photon_count = Zero
    /\ call.val.intermediate.exposure_time_s = Zero
    /\ call.val.intermediate.total_energy_per_pixel_j = Zero

BundleIsDark ==
    /\ call.exc = "none"
    /\ call.val.results.electron_count = Zero
    /\ call.val.noise_analysis.dark_electrons = Zero

\* C10 as claimed: with exposure_time_ms = 0 and otherwise finite inputs,
\* f_number > 0 and wavelength_nm > 0, calculate_photon_count returns 0
\* photons and calculate_full_chain a bundle with electron_count = 0 and
\* dark_electrons = 0.
C10_ZeroExposureGivesZero ==
    /\ ZeroExposurePhoton => PhotonCountIsZero
    /\ ZeroExposureChain => BundleIsDark

\* no statement of calculate_photon_count overflows or underflows: the
\* pixel area is representable, the photon energy is neither an error nor
\* 0, and irradiance * area is finite
PhotonInRange(g, e, p, w) ==
    LET area == Pow2(Mul(p, Flt(1, -6)))
        energy == Div(Mul(g.PLANCK_CONSTANT, g.SPEED_OF_LIGHT),
                      Mul(w, Flt(1, -9)))
    IN /\ ~IsErr(area)
       /\ ~IsErr(energy)
       /\ ~IsZero(energy)
       /\ IsFin(Mul(Div(e, g.LUX_CONVERSION_FACTOR), area))

\* the sensor illuminance of the chain's arguments
SensorOf(a) ==
    calculate_sensor_illuminance(
        calculate_scene_luminance(a.scene_illuminance, a.scene_reflectance),
        a.lens_transmittance, a.f_number)

\* C10 amended: the same, provided no intermediate overflows or
\* underflows: the sensor illuminance is finite (f_number**2 neither
\* overflows nor rounds to 0), pixel_size_um**2 and read_noise**2 are
\* representable, the photon energy is not 0 and irradiance * pixel area
\* is finite.
C10_ZeroExposureGivesZeroInRange ==
    /\ (ZeroExposurePhoton
          /\ PhotonInRange(G, call.args[1], call.args[2], call.args[4]))
         => PhotonCountIsZero
    /\ (ZeroExposureChain
          /\ IsFin(SensorOf(call.args))
          /\ PhotonInRange(G, SensorOf(call.args), call.args.pixel_size_um,
                           call.args.wavelength_nm)
          /\ ~IsErr(Pow2(call.args.read_noise_electrons)))
         => BundleIsDark

\* C10 witness: a bundle for zero exposure of a lit scene: light reaches
\* the sensor, no electron is counted
C10_Witness ==
    /\ ZeroExposureChain
    /\ call.exc = "none"
    /\ Gt(call.val.results.sensor_illuminance_lux, Zero)
    /\ call.val.results.electron_count = Zero
    /\ call.val.noise_analysis.dark_electrons = Zero
    /\ call.val.intermediates.exposure_time_s = Zero

(***************************************************************************)
(* launch_dashboard                                                        *)
(***************************************************************************)

\* the commands in list order, up to the n-th
FirstCommands(n) == [i \in 1..n |-> i]

\* the children that are running now
RunningNow == {i \in 1..Len(launch_commands) : procs[i] = "running"}

\* launch_dashboard has returned a value
HasReturned == at = "done" /\ returned \in {"True", "False"}

\* C11: launch_dashboard tries its three launch commands strictly in listed
\* order, one at a time; it stops at the first command whose process is
\* still running after the start-up wait and starts no later command after
\* that; a command that fails to start or whose process has already exited
\* leads to the next command being tried, so that it returns False exactly
\* when none of the three commands leaves a running process, all three
\* having been tried; and it returns True only after an interrupt, having
\* terminated the one process it kept.
C11_TriesInOrderUntilOneRuns ==
    /\ started = FirstCommands(Len(started))
    /\ \A i \in RunningNow : i = process
    /\ success => (process = started[Len(started)] /\ procs[process] \in {"running", "exited"})
    /\ (at \in {"sleep", "poll"}) => process = started[Len(started)]
    /\ HasReturned => (returned = "False" <=> ~success)
    /\ (HasReturned /\ returned = "False") => Len(started) = Len(launch_commands)
    /\ (HasReturned /\ returned = "True") => (success /\ terminated = {process})
    /\ terminated # {} => (success /\ terminated = {process})

====
